---- MODULE Spec2Model ----
(***************************************************************************)
(* Model of the TSV ingestion pipeline: the directory Watcher              *)
(* (internal/watcher/directory_watcher.go), the worker pool                *)
(* (cmd/api/main.go) and the file Processor                                *)
(* (internal/processor/processor.go) over the relational store             *)
(* (db/migration, db/query).                                               *)
(***************************************************************************)
EXTENDS Integers, Sequences, FiniteSets, TLC

\* ------------------------------------------------------------------ bounds
MaxLines == 2      \* longest input file, in physical lines
NumWorkers == 2    \* worker.max_workers used in the model
QueueSize == 1     \* worker.max_queue_size used in the model
MaxFaults == 1     \* store statements that may fail in one behaviour
MaxStops == 2      \* callers of Watcher.Stop

\* os.ReadDir returns the entries sorted by file name.
FileList == <<"a.tsv", "b.tsv">>
FileNames == {FileList[i] : i \in 1..Len(FileList)}
Workers == 1..NumWorkers
\* The goroutine an API request for a file starts.
ApiCallers == {NumWorkers + 1}
\* Every goroutine that can run ProcessFile.
Callers == Workers \cup ApiCallers
Stoppers == 1..MaxStops

\* --------------------------------------------------------- input files
\* A physical line of an input file, by what parseTSVFile does with it.
LineKinds == {"comment", "header", "valid", "invalid"}

SeqsUpTo(S, n) == UNION {[1..k -> S] : k \in 0..n}

Contents == SeqsUpTo(LineKinds, MaxLines)

NoRow == [id |-> 0]

\* The values of the unit_guid field of the input lines.
Guids == <<"g1", "g2">>

\* calculateFileHash: SHA-256 of the bytes; equal hashes iff equal content.
calculateFileHash(content) == content

\* strings.TrimSpace(rawLine) == "" || HasPrefix(TrimSpace(rawLine), "#")
IsSkippedLine(l) == l \in {"blank", "comment"}

\* strings.Contains(ToLower(rawLine), "n\tmqtt\tinvid") || "номер\tmqtt"
IsHeaderLine(l) == l = "header"

\* parseLine: a row for a record whose fields validate, else an error.
\* A header text fed to parseLine has "unit_guid" in field 3: not a UUID.
parseLine(l, lineNumber) ==
    IF l = "valid"
    THEN [ok |-> TRUE, row |-> [line_number |-> lineNumber]]
    ELSE [ok |-> FALSE, row |-> [line_number |-> lineNumber]]

\* parseTSVFile giving up at the first line that does not parse.
RECURSIVE parseFromStopsAtError(_, _, _, _, _)
parseFromStopsAtError(lines, n, isFirstDataLine, rows, errs) ==
    IF n > Len(lines) THEN [rows |-> rows, errors |-> errs]
    ELSE IF IsSkippedLine(lines[n])
         THEN parseFromStopsAtError(lines, n + 1, isFirstDataLine, rows, errs)
    ELSE IF isFirstDataLine /\ IsHeaderLine(lines[n])
         THEN parseFromStopsAtError(lines, n + 1, FALSE, rows, errs)
    ELSE LET r == parseLine(lines[n], n) IN
         IF r.ok
         THEN parseFromStopsAtError(lines, n + 1, FALSE,
                                    Append(rows, r.row), errs)
         ELSE [rows |-> rows, errors |-> Append(errs, [line_number |-> n])]

\* parseTSVFile skipping every line that looks like the header.
RECURSIVE parseFromSkipsEveryHeader(_, _, _, _, _)
parseFromSkipsEveryHeader(lines, n, isFirstDataLine, rows, errs) ==
    IF n > Len(lines) THEN [rows |-> rows, errors |-> errs]
    ELSE IF IsSkippedLine(lines[n])
         THEN parseFromSkipsEveryHeader(lines, n + 1, isFirstDataLine, rows,
                                        errs)
    ELSE IF IsHeaderLine(lines[n])
         THEN parseFromSkipsEveryHeader(lines, n + 1, FALSE, rows, errs)
    ELSE LET r == parseLine(lines[n], n) IN
         IF r.ok
         THEN parseFromSkipsEveryHeader(lines, n + 1, FALSE,
                                        Append(rows, r.row), errs)
         ELSE parseFromSkipsEveryHeader(lines, n + 1, FALSE, rows,
                                        Append(errs, [line_number |-> n]))

RECURSIVE parseFrom(_, _, _, _, _)
parseFrom(lines, n, isFirstDataLine, rows, errs) ==
    IF n > Len(lines) THEN [rows |-> rows, errors |-> errs]
    ELSE IF IsSkippedLine(lines[n])
         THEN parseFrom(lines, n + 1, isFirstDataLine, rows, errs)
    ELSE IF isFirstDataLine /\ IsHeaderLine(lines[n])
         THEN parseFrom(lines, n + 1, FALSE, rows, errs)
    ELSE LET r == parseLine(lines[n], n) IN
         IF r.ok
         THEN parseFrom(lines, n + 1, FALSE, Append(rows, r.row), errs)
         ELSE parseFrom(lines, n + 1, FALSE, rows,
                        Append(errs, [line_number |-> n]))

\* parseTSVFile: all rows and all line errors of the file at filePath.
parseTSVFile(content) == parseFrom(content, 1, TRUE, <<>>, <<>>)

\* ------------------------------------------------------------ state
VARIABLES
    watchDir,           \* watched directory: name of each file -> content
    archiveDir,         \* names of the files in the archive directory
    errorDir,           \* names of the files in the error directory
    fileQueue,          \* Watcher.fileQueue: buffered channel content
    queueClosed,        \* fileQueue has been closed
    stopChanClosed,     \* Watcher.stopChan has been closed
    closed,             \* Watcher.closed
    mu,                 \* Watcher.mu: 0 when free, else the holder
    stopPc,             \* position of each caller of Watcher.Stop
    wpc,                \* position of the Watcher.Start goroutine
    entries,            \* directory listing still to visit in this scan
    pending,            \* FileInfo the scan is trying to send
    wk,                 \* the worker goroutines and their ProcessFile call
    files,              \* table files
    device_data,        \* table device_data, in insertion order
    processing_errors,  \* table processing_errors, in insertion order
    faults,             \* store statements that have failed so far
    processed,          \* legacy Watcher.processed: the hashes marked
    skipLog,            \* names logged "Queue is full, skipping file"
    offer,              \* the caller of Watcher.SendToQueue
    shutdown,           \* App.shutdown: its position, and whether the
                        \* wait for the workers timed out
    storeClosed,        \* Store.Close has been called
    unitGuids,          \* input: the unit_guid field of each line of each file
    reports,            \* table reports, in insertion order
    outputDir,          \* paths of the report files on disk
    hk,                 \* the goroutine of Handler.processFile
    subDirs,            \* names of the sub-directories of the watched
                        \* directory
    scanLog,            \* names logged "Error stating file" or "Error
                        \* calculating hash"
    lineIn,             \* input: the fields of one record given to parseLine
    lineOut,            \* what parseLine returned for lineIn
    panicked            \* "no", or the panic that ended the process

watcherVars == <<fileQueue, queueClosed, stopChanClosed, closed, mu, stopPc,
                 wpc, entries, pending>>
dirVars == <<watchDir, archiveDir, errorDir>>
storeVars == <<files, device_data, processing_errors>>
legacyVars == <<processed, skipLog>>
appVars == <<offer, shutdown, storeClosed>>
reportVars == <<unitGuids, reports, outputDir, hk>>
scanVars == <<subDirs, scanLog>>
lineVars == <<lineIn, lineOut>>
vars == <<watchDir, archiveDir, errorDir, fileQueue, queueClosed,
          stopChanClosed, closed, mu, stopPc, wpc, entries, pending, wk,
          files, device_data, processing_errors, faults, processed, skipLog,
          offer, shutdown, storeClosed, unitGuids, reports, outputDir, hk,
          subDirs, scanLog, lineIn, lineOut, panicked>>

NoInfo == [Name |-> "", Hash |-> <<>>]

IdleWorker == [pc |-> "recv", info |-> NoInfo, fileID |-> 0,
               rows |-> <<>>, errors |-> <<>>, ri |-> 1,
               successCount |-> 0, failedCount |-> 0,
               ret |-> "none", created |-> FALSE, writeErr |-> FALSE]

\* Handler.processFile before it is started. failedUnits is not a variable
\* of the code: it keeps the devices whose report was passed over.
IdleHandler == [pc |-> "idle", filename |-> "", fileID |-> 0, data |-> <<>>,
                lineNumber |-> 1, rowsProcessed |-> 0, rowsFailed |-> 0,
                units |-> {}, failedUnits |-> {}]

\* Every line of every file names the same device.
OneDevice ==
    unitGuids = [n \in DOMAIN watchDir |->
                    [i \in 1..Len(watchDir[n]) |-> Guids[1]]]

\* parseLine has not been called.
NotParsed == [ok |-> FALSE, err |-> "not called"]

\* The watched directory has no sub-directory; no record is given to
\* parseLine on its own.
NoScanInput == subDirs = {} /\ scanLog = {}
NoLineInput == lineIn = <<>> /\ lineOut = NotParsed

InitRest ==
    /\ archiveDir = {}
    /\ errorDir = {}
    /\ fileQueue = <<>>
    /\ queueClosed = FALSE
    /\ stopChanClosed = FALSE
    /\ closed = FALSE
    /\ mu = 0
    /\ wpc = "start"
    /\ entries = <<>>
    /\ pending = NoInfo
    /\ wk = [c \in Callers |->
               IF c \in Workers THEN IdleWorker
               ELSE [IdleWorker EXCEPT !.pc = "api"]]
    /\ files = {}
    /\ device_data = <<>>
    /\ processing_errors = <<>>
    /\ faults = 0
    /\ processed = {}
    /\ skipLog = {}
    /\ offer = [pc |-> "idle", ret |-> "none"]
    /\ shutdown = [pc |-> "idle", timedOut |-> FALSE]
    /\ storeClosed = FALSE
    /\ reports = <<>>
    /\ outputDir = {}
    /\ hk = IdleHandler
    /\ panicked = "no"

\* One input file of any content in the watched directory; Stop is called
\* by the shutdown and by one more caller.
Init ==
    /\ watchDir \in [{FileList[1]} -> Contents]
    /\ stopPc = [s \in Stoppers |-> "idle"]
    /\ OneDevice
    /\ InitRest
    /\ NoScanInput
    /\ NoLineInput

\* The process runs until a panic or the return of App.shutdown ends it.
Running == panicked = "no" /\ shutdown.pc # "exited"

\* ------------------------------------------------------------ Watcher
FileInfoOf(name) == [Name |-> name, Hash |-> calculateFileHash(watchDir[name])]

\* os.ReadDir(w.watchDir): the names present, sorted.
InDir(name) == name \in DOMAIN watchDir
ReadDir == SelectSeq(FileList, InDir)

\* After the candidate at the head of the listing was dealt with.
AfterCandidate(rest) == IF rest = <<>> THEN "idle" ELSE "scan"

\* Start: one scan at once, then one scan per tick; scanDirectory reads
\* the directory listing.
ScanBegin ==
    /\ Running
    /\ wpc \in {"start", "idle"}
    /\ entries' = ReadDir
    /\ wpc' = AfterCandidate(ReadDir)
    /\ UNCHANGED <<fileQueue, queueClosed, stopChanClosed, closed, mu,
                   stopPc, pending, dirVars, scanVars, lineVars, reportVars, appVars, legacyVars, storeVars, wk, faults, panicked>>

\* Start: case <-w.stopChan: return
WatcherExit ==
    /\ Running
    /\ wpc = "idle"
    /\ stopChanClosed
    /\ wpc' = "stopped"
    /\ UNCHANGED <<fileQueue, queueClosed, stopChanClosed, closed, mu,
                   stopPc, entries, pending, dirVars, scanVars, lineVars, reportVars, appVars, legacyVars, storeVars, wk, faults,
                   panicked>>

\* processFile with the set of processed hashes of the earlier Watcher: a
\* hash that has been queued once is never offered again.
OfferCandidateOncePerHash ==
    /\ Running
    /\ wpc = "scan"
    /\ entries # <<>>
    /\ ~queueClosed
    /\ LET info == FileInfoOf(Head(entries)) IN
       IF info.Hash \notin processed /\ Len(fileQueue) < QueueSize
       THEN /\ fileQueue' = Append(fileQueue, info)
            /\ processed' = processed \cup {info.Hash}
       ELSE UNCHANGED <<fileQueue, processed>>
    /\ entries' = Tail(entries)
    /\ wpc' = AfterCandidate(Tail(entries))
    /\ UNCHANGED <<queueClosed, stopChanClosed, closed, mu, stopPc, pending,
                   dirVars, scanVars, lineVars, reportVars, appVars, skipLog, storeVars, wk, faults,
                   panicked>>

\* processFile enters its select: a send on the closed queue panics, a free
\* slot takes the entry, a full queue leaves the scan waiting.
OfferCandidate ==
    /\ Running
    /\ wpc = "scan"
    /\ entries # <<>>
    /\ LET info == FileInfoOf(Head(entries)) IN
       IF queueClosed
       THEN /\ panicked' = "send on closed channel"
            /\ wpc' = "panic"
            /\ UNCHANGED <<fileQueue, entries, pending>>
       ELSE IF Len(fileQueue) < QueueSize
       THEN /\ fileQueue' = Append(fileQueue, info)
            /\ entries' = Tail(entries)
            /\ wpc' = AfterCandidate(Tail(entries))
            /\ UNCHANGED <<pending, panicked>>
       ELSE /\ pending' = info
            /\ wpc' = "blocked"
            /\ UNCHANGED <<fileQueue, entries, panicked>>
    /\ UNCHANGED <<queueClosed, stopChanClosed, closed, mu, stopPc, dirVars, scanVars, lineVars, reportVars, appVars, legacyVars,
                   storeVars, wk, faults>>

\* processFile: case w.fileQueue <- fileInfo, after waiting for a slot.
BlockedSend ==
    /\ Running
    /\ wpc = "blocked"
    /\ IF queueClosed
       THEN /\ panicked' = "send on closed channel"
            /\ wpc' = "panic"
            /\ UNCHANGED <<fileQueue, entries, pending>>
       ELSE /\ Len(fileQueue) < QueueSize
            /\ fileQueue' = Append(fileQueue, pending)
            /\ entries' = Tail(entries)
            /\ pending' = NoInfo
            /\ wpc' = AfterCandidate(Tail(entries))
            /\ UNCHANGED panicked
    /\ UNCHANGED <<queueClosed, stopChanClosed, closed, mu, stopPc, dirVars, scanVars, lineVars, reportVars, appVars, legacyVars,
                   storeVars, wk, faults>>

\* A timeout that gives up the whole scan.
BlockedTimeoutEndsScan ==
    /\ Running
    /\ wpc = "blocked"
    /\ entries' = <<>>
    /\ pending' = NoInfo
    /\ wpc' = "idle"
    /\ UNCHANGED <<fileQueue, queueClosed, stopChanClosed, closed, mu,
                   stopPc, dirVars, scanVars, lineVars, reportVars, appVars, legacyVars, storeVars, wk, faults,
                   panicked>>

\* processFile: case <-time.After(5 * time.Second): the file is not queued.
\* The timer wins only while the send cannot proceed: a receive that frees
\* a slot completes the waiting send in the same instant.
BlockedTimeout ==
    /\ Running
    /\ wpc = "blocked"
    /\ ~queueClosed
    /\ Len(fileQueue) = QueueSize
    /\ entries' = Tail(entries)
    /\ pending' = NoInfo
    /\ wpc' = AfterCandidate(Tail(entries))
    /\ UNCHANGED <<fileQueue, queueClosed, stopChanClosed, closed, mu,
                   stopPc, dirVars, scanVars, lineVars, reportVars, appVars, legacyVars, storeVars, wk, faults, panicked>>

\* A Stop without the closed flag: every call closes the channels.
StopTestUnguarded(isClosed, s) ==
    IF stopChanClosed
    THEN /\ panicked' = "close of closed channel"
         /\ UNCHANGED <<mu, stopPc, stopChanClosed>>
    ELSE /\ stopChanClosed' = TRUE
         /\ mu' = s
         /\ stopPc' = [stopPc EXCEPT ![s] = "closing"]
         /\ UNCHANGED panicked

\* Stop: w.mu.Lock(); if w.closed { return }; close(w.stopChan)
StopTest(isClosed, s) ==
    IF isClosed
    THEN /\ stopPc' = [stopPc EXCEPT ![s] = "done"]
         /\ UNCHANGED <<mu, stopChanClosed, panicked>>
    ELSE IF stopChanClosed
    THEN /\ panicked' = "close of closed channel"
         /\ UNCHANGED <<mu, stopPc, stopChanClosed>>
    ELSE /\ stopChanClosed' = TRUE
         /\ mu' = s
         /\ stopPc' = [stopPc EXCEPT ![s] = "closing"]
         /\ UNCHANGED panicked

StopEnter(s) ==
    /\ Running
    /\ stopPc[s] = "idle"
    /\ mu = 0
    /\ StopTest(closed, s)
    /\ UNCHANGED <<fileQueue, queueClosed, closed, wpc, entries, pending,
                   dirVars, scanVars, lineVars, reportVars, appVars, legacyVars, storeVars, wk, faults>>

\* Stop: close(w.fileQueue); w.closed = true; the deferred Unlock
StopCloseQueue(s) ==
    /\ Running
    /\ stopPc[s] = "closing"
    /\ IF queueClosed
       THEN /\ panicked' = "close of closed channel"
            /\ UNCHANGED <<queueClosed, closed, mu, stopPc>>
       ELSE /\ queueClosed' = TRUE
            /\ closed' = TRUE
            /\ mu' = 0
            /\ stopPc' = [stopPc EXCEPT ![s] = "done"]
            /\ UNCHANGED panicked
    /\ UNCHANGED <<fileQueue, stopChanClosed, wpc, entries, pending, dirVars, scanVars, lineVars, reportVars, appVars, legacyVars,
                   storeVars, wk, faults>>

\* ------------------------------------------------------------ store
\* SELECT * FROM files WHERE filename = $1 LIMIT 1; NoRow stands for the
\* err != nil of the caller: sql.ErrNoRows, or the error of a closed store.
GetFileByFilename(filename) ==
    IF ~storeClosed /\ \E f \in files : f.filename = filename
    THEN CHOOSE f \in files : f.filename = filename
    ELSE NoRow

\* The files table without its UNIQUE constraint.
UniqueViolationDropped(filename) == FALSE

\* "filename" varchar UNIQUE NOT NULL
UniqueViolation(filename) == \E f \in files : f.filename = filename

\* "id" bigserial PRIMARY KEY
NextFileID == Cardinality(files) + 1

\* INSERT INTO files (filename, file_hash, status) ... RETURNING *
\* A FileRecord that is created in status 'completed'.
NewFileRowCompleted(id, filename, hash, status) ==
    [id |-> id, filename |-> filename, file_hash |-> hash,
     status |-> "completed", rows_processed |-> 0, rows_failed |-> 0]

NewFileRow(id, filename, hash, status) ==
    [id |-> id, filename |-> filename, file_hash |-> hash, status |-> status,
     rows_processed |-> 0, rows_failed |-> 0]

\* UPDATE files SET status = $2 WHERE id = $1
WithStatus(id, status) ==
    {IF f.id = id THEN [f EXCEPT !.status = status] ELSE f : f \in files}

\* A progress update that writes the success counter into both columns.
WithProgressSameCounter(id, rowsProcessed, rowsFailed) ==
    {IF f.id = id
     THEN [f EXCEPT !.rows_processed = rowsProcessed, !.rows_failed = rowsProcessed]
     ELSE f : f \in files}

\* UPDATE files SET rows_processed = $2, rows_failed = $3 WHERE id = $1
WithProgress(id, rowsProcessed, rowsFailed) ==
    {IF f.id = id
     THEN [f EXCEPT !.rows_processed = rowsProcessed, !.rows_failed = rowsFailed]
     ELSE f : f \in files}

\* A store statement fails (connection reset, timeout) at most MaxFaults
\* times in a behaviour, and always once the store is closed.
Fault(fail) ==
    /\ storeClosed => fail
    /\ (fail /\ ~storeClosed) => faults < MaxFaults
    /\ faults' = IF fail /\ ~storeClosed THEN faults + 1 ELSE faults

\* ------------------------------------------------------------ workers
\* A receive that hands out the head of the queue and leaves it there.
ReceiveKeepsHead(w) ==
    /\ Running
    /\ wk[w].pc = "recv"
    /\ IF fileQueue # <<>>
       THEN wk' = [wk EXCEPT ![w] = [IdleWorker EXCEPT
                      !.pc = "lookup", !.info = Head(fileQueue)]]
       ELSE /\ queueClosed
            /\ wk' = [wk EXCEPT ![w].pc = "exited"]
    /\ UNCHANGED <<fileQueue, queueClosed, stopChanClosed, closed, mu,
                   stopPc, wpc, entries, pending, dirVars, scanVars, lineVars, reportVars, appVars,
                   legacyVars, storeVars, faults, panicked>>

\* worker: for fileInfo := range fileQueue
Receive(w) ==
    /\ Running
    /\ wk[w].pc = "recv"
    /\ IF fileQueue # <<>>
       THEN /\ wk' = [wk EXCEPT ![w] = [IdleWorker EXCEPT
                         !.pc = "lookup", !.info = Head(fileQueue)]]
            /\ fileQueue' = Tail(fileQueue)
       ELSE /\ queueClosed
            /\ wk' = [wk EXCEPT ![w].pc = "exited"]
            /\ UNCHANGED fileQueue
    /\ UNCHANGED <<queueClosed, stopChanClosed, closed, mu, stopPc, wpc,
                   entries, pending, dirVars, scanVars, lineVars, reportVars, appVars, legacyVars, storeVars, faults, panicked>>

\* A worker loop that ends when ProcessFile returns an error.
ReturnExitsOnError(w, result, writeErr) ==
    [IdleWorker EXCEPT !.pc = IF result = "error" THEN "exited"
                             ELSE IF w \in Workers THEN "recv" ELSE "api",
                       !.info = wk[w].info, !.fileID = wk[w].fileID,
                       !.created = wk[w].created, !.ret = result,
                       !.writeErr = writeErr]

\* ProcessFile returns to the worker loop; its locals are gone. The worker
\* keeps what its log line reports: the file, the result, and whether the
\* call created the record and saw a store statement fail.
Return(w, result, writeErr) ==
    [IdleWorker EXCEPT !.pc = IF w \in Workers THEN "recv" ELSE "api",
                       !.info = wk[w].info, !.fileID = wk[w].fileID,
                       !.created = wk[w].created, !.ret = result,
                       !.writeErr = writeErr]

\* A dedupe check that never recognises the file.
AlreadyProcessedNever(existingFile, info) == FALSE

\* ProcessFile step 1: the file counts as processed when a record with its
\* name and hash exists.
AlreadyProcessed(existingFile, info) ==
    existingFile # NoRow /\ existingFile.file_hash = info.Hash

Lookup(w) ==
    /\ Running
    /\ wk[w].pc = "lookup"
    /\ LET existingFile == GetFileByFilename(wk[w].info.Name) IN
       wk' = [wk EXCEPT ![w] =
                 IF AlreadyProcessed(existingFile, wk[w].info)
                 THEN Return(w, "ok", FALSE)
                 ELSE [wk[w] EXCEPT !.pc = "create"]]
    /\ UNCHANGED <<watcherVars, dirVars, scanVars, lineVars, reportVars, appVars, legacyVars, storeVars, faults, panicked>>

\* Where ProcessFile goes once the record exists and the file is parsed.
AfterParse(rows, errors) ==
    IF errors # <<>> THEN "errors"
    ELSE IF rows # <<>> THEN "rows" ELSE "progress"

\* ProcessFile steps 2 and 3: CreateFile, then parseTSVFile.
CreateFile(w) ==
    /\ Running
    /\ wk[w].pc = "create"
    /\ \E fail \in BOOLEAN :
        /\ Fault(fail)
        /\ IF fail \/ UniqueViolation(wk[w].info.Name)
           THEN /\ wk' = [wk EXCEPT ![w] = Return(w, "error", TRUE)]
                /\ UNCHANGED files
           ELSE LET id == NextFileID
                    parsed == parseTSVFile(watchDir[wk[w].info.Name])
                IN /\ files' = files \cup
                        {NewFileRow(id, wk[w].info.Name, wk[w].info.Hash,
                                    "processing")}
                   /\ wk' = [wk EXCEPT ![w] = [wk[w] EXCEPT
                         !.fileID = id, !.created = TRUE,
                         !.rows = parsed.rows, !.errors = parsed.errors,
                         !.pc = AfterParse(parsed.rows, parsed.errors)]]
    /\ UNCHANGED <<watcherVars, dirVars, scanVars, lineVars, reportVars, appVars, legacyVars, device_data, processing_errors,
                   panicked>>

\* ProcessFile step 3: CreateProcessingError for each parse error; a failed
\* insert is logged.
SaveError(w) ==
    /\ Running
    /\ wk[w].pc = "errors"
    /\ \E fail \in BOOLEAN :
        /\ Fault(fail)
        /\ processing_errors' =
              IF fail THEN processing_errors
              ELSE Append(processing_errors,
                          [file_id |-> wk[w].fileID,
                           line_number |-> Head(wk[w].errors).line_number])
        /\ wk' = [wk EXCEPT ![w] = [wk[w] EXCEPT
                 !.errors = Tail(wk[w].errors),
                 !.writeErr = @ \/ fail,
                 !.pc = IF Tail(wk[w].errors) # <<>> THEN "errors"
                        ELSE IF wk[w].rows # <<>> THEN "rows"
                        ELSE "progress"]]
    /\ UNCHANGED <<watcherVars, dirVars, scanVars, lineVars, reportVars, appVars, legacyVars, files, device_data, panicked>>

\* CreateDeviceData with the LineNumber parameter left at its zero value.
SaveRowWithoutLineNumber(w) ==
    /\ Running
    /\ wk[w].pc = "rows"
    /\ \E fail \in BOOLEAN :
        /\ Fault(fail)
        /\ device_data' =
              IF fail THEN device_data
              ELSE Append(device_data,
                          [file_id |-> wk[w].fileID,
                           line_number |-> 0])
        /\ wk' = [wk EXCEPT ![w] = [wk[w] EXCEPT
                 !.successCount = IF fail THEN @ ELSE @ + 1,
                 !.failedCount = IF fail THEN @ + 1 ELSE @,
                 !.writeErr = @ \/ fail,
                 !.ri = @ + 1,
                 !.pc = IF wk[w].ri = Len(wk[w].rows)
                        THEN "progress" ELSE "rows"]]
    /\ UNCHANGED <<watcherVars, dirVars, scanVars, lineVars, reportVars, appVars, legacyVars, files, processing_errors, panicked>>

\* A row loop that a failed insert ends: the rows after it are left out.
SaveRowStopsAtFailure(w) ==
    /\ Running
    /\ wk[w].pc = "rows"
    /\ \E fail \in BOOLEAN :
        /\ Fault(fail)
        /\ device_data' =
              IF fail THEN device_data
              ELSE Append(device_data,
                          [file_id |-> wk[w].fileID,
                           line_number |-> wk[w].rows[wk[w].ri].line_number])
        /\ wk' = [wk EXCEPT ![w] = [wk[w] EXCEPT
                 !.successCount = IF fail THEN @ ELSE @ + 1,
                 !.failedCount = IF fail THEN @ + 1 ELSE @,
                 !.writeErr = @ \/ fail,
                 !.ri = @ + 1,
                 !.pc = IF fail \/ wk[w].ri = Len(wk[w].rows)
                        THEN "progress" ELSE "rows"]]
    /\ UNCHANGED <<watcherVars, dirVars, scanVars, lineVars, reportVars, appVars, legacyVars, files, processing_errors, panicked>>

\* ProcessFile step 4: CreateDeviceData for each row; a failed insert counts
\* in failedCount.
SaveRow(w) ==
    /\ Running
    /\ wk[w].pc = "rows"
    /\ \E fail \in BOOLEAN :
        /\ Fault(fail)
        /\ device_data' =
              IF fail THEN device_data
              ELSE Append(device_data,
                          [file_id |-> wk[w].fileID,
                           line_number |-> wk[w].rows[wk[w].ri].line_number])
        /\ wk' = [wk EXCEPT ![w] = [wk[w] EXCEPT
                 !.successCount = IF fail THEN @ ELSE @ + 1,
                 !.failedCount = IF fail THEN @ + 1 ELSE @,
                 !.writeErr = @ \/ fail,
                 !.ri = @ + 1,
                 !.pc = IF wk[w].ri = Len(wk[w].rows)
                        THEN "progress" ELSE "rows"]]
    /\ UNCHANGED <<watcherVars, dirVars, scanVars, lineVars, reportVars, appVars, legacyVars, files, processing_errors, panicked>>

\* ProcessFile step 5: UpdateFileProgress; a failed update is logged.
UpdateProgress(w) ==
    /\ Running
    /\ wk[w].pc = "progress"
    /\ \E fail \in BOOLEAN :
        /\ Fault(fail)
        /\ files' = IF fail THEN files
                    ELSE WithProgress(wk[w].fileID, wk[w].successCount,
                                      wk[w].failedCount)
        /\ wk' = [wk EXCEPT ![w] = [wk[w] EXCEPT
                 !.pc = "status", !.writeErr = @ \/ fail]]
    /\ UNCHANGED <<watcherVars, dirVars, scanVars, lineVars, reportVars, appVars, legacyVars, device_data, processing_errors,
                   panicked>>

\* ProcessFile step 6: the final status from the two counters.
FinalStatus(successCount, failedCount, nRows) ==
    IF failedCount > 0 /\ failedCount = nRows THEN "failed"
    ELSE IF failedCount > 0 THEN "partial"
    ELSE "completed"

\* A row of table reports. file_id is not a column: it records the ingest
\* the report was made for. The path is the device and, for the timestamp,
\* the ingest.
ReportRow(unitGuid, fileID) ==
    [unit_guid |-> unitGuid, file_path |-> <<unitGuid, fileID>>,
     file_id |-> fileID]

\* The unit_guid field of a parsed row.
UnitGuidOf(filename, row) == unitGuids[filename][row.line_number]

\* Processor.generateReports: the grouping by unit_guid is left to do, the
\* map it ranges over is empty whatever the rows are.
deviceDataByUnit(filename, rows) == {}

RECURSIVE CreateReports(_, _, _)
CreateReports(table, units, fileID) ==
    IF units = {} THEN table
    ELSE LET unitGuid == CHOOSE u \in units : TRUE IN
         CreateReports(Append(table, ReportRow(unitGuid, fileID)),
                       units \ {unitGuid}, fileID)

generateReports(fileID, filename, rows) ==
    CreateReports(reports, deviceDataByUnit(filename, rows), fileID)

\* ProcessFile steps 6 and 7: UpdateFileStatus (a failed update is logged),
\* generateReports over its empty grouping, return nil.
UpdateStatus(w) ==
    /\ Running
    /\ wk[w].pc = "status"
    /\ \E fail \in BOOLEAN :
        /\ Fault(fail)
        /\ files' = IF fail THEN files
                    ELSE WithStatus(wk[w].fileID,
                            FinalStatus(wk[w].successCount,
                                        wk[w].failedCount, Len(wk[w].rows)))
        /\ wk' = [wk EXCEPT ![w] = Return(w, "ok", wk[w].writeErr \/ fail)]
    /\ reports' = generateReports(wk[w].fileID, wk[w].info.Name, wk[w].rows)
    /\ UNCHANGED <<watcherVars, dirVars, scanVars, lineVars, unitGuids, outputDir, hk, appVars,
                   legacyVars, device_data, processing_errors, panicked>>

\* ------------------------------------------------------------ system
Next ==
    \/ ScanBegin
    \/ WatcherExit
    \/ OfferCandidate
    \/ BlockedSend
    \/ BlockedTimeout
    \/ \E s \in Stoppers : StopEnter(s)
    \/ \E s \in Stoppers : StopCloseQueue(s)
    \/ \E w \in Workers : Receive(w)
    \/ \E w \in Workers : Lookup(w)
    \/ \E w \in Workers : CreateFile(w)
    \/ \E w \in Workers : SaveError(w)
    \/ \E w \in Workers : SaveRow(w)
    \/ \E w \in Workers : UpdateProgress(w)
    \/ \E w \in Workers : UpdateStatus(w)

Spec == Init /\ [][Next]_vars

\* The watched directory holds both files, so that a scan has a candidate
\* left after the one it waits for.
ScanDir ==
    [n \in FileNames |-> IF n = FileList[1] THEN <<"valid">>
                                             ELSE <<"invalid">>]

InitScan ==
    /\ watchDir = ScanDir
    /\ stopPc = [s \in Stoppers |-> "idle"]
    /\ OneDevice
    /\ InitRest
    /\ NoScanInput
    /\ NoLineInput

SpecScan == InitScan /\ [][Next]_vars

\* ------------------------------------------------------------ legacy
\* The Watcher of the first version of directory_watcher.go: it keeps the
\* set of the hashes it has queued, offers a file without waiting, and its
\* Stop closes stopChan only. Its Start loop is the one of the current
\* Watcher.

\* isProcessed: w.processed[hash]
isProcessed(hash) == hash \in processed

\* markAsProcessed: w.processed[hash] = true
markAsProcessed(hash) == processed \cup {hash}

\* A processFile that marks the hash before it tries to send.
LegacyOfferMarkFirst ==
    /\ Running
    /\ wpc = "scan"
    /\ entries # <<>>
    /\ LET info == FileInfoOf(Head(entries)) IN
       IF isProcessed(info.Hash)
       THEN /\ entries' = Tail(entries)
            /\ wpc' = AfterCandidate(Tail(entries))
            /\ UNCHANGED <<fileQueue, pending, processed, skipLog>>
       ELSE IF Len(fileQueue) < QueueSize
       THEN /\ fileQueue' = Append(fileQueue, info)
            /\ pending' = info
            /\ wpc' = "mark"
            /\ UNCHANGED <<entries, processed, skipLog>>
       ELSE /\ skipLog' = skipLog \cup {info.Name}
            /\ processed' = markAsProcessed(info.Hash)
            /\ entries' = Tail(entries)
            /\ wpc' = AfterCandidate(Tail(entries))
            /\ UNCHANGED <<fileQueue, pending>>
    /\ UNCHANGED <<queueClosed, stopChanClosed, closed, mu, stopPc, dirVars, scanVars, lineVars, reportVars, appVars,
                   storeVars, wk, faults, panicked>>

\* processFile: a marked hash is passed over; else the select sends the
\* entry when the queue has room, and logs and drops it when it is full.
LegacyOffer ==
    /\ Running
    /\ wpc = "scan"
    /\ entries # <<>>
    /\ LET info == FileInfoOf(Head(entries)) IN
       IF isProcessed(info.Hash)
       THEN /\ entries' = Tail(entries)
            /\ wpc' = AfterCandidate(Tail(entries))
            /\ UNCHANGED <<fileQueue, pending, processed, skipLog>>
       ELSE IF Len(fileQueue) < QueueSize
       THEN /\ fileQueue' = Append(fileQueue, info)
            /\ pending' = info
            /\ wpc' = "mark"
            /\ UNCHANGED <<entries, processed, skipLog>>
       ELSE /\ skipLog' = skipLog \cup {info.Name}
            /\ entries' = Tail(entries)
            /\ wpc' = AfterCandidate(Tail(entries))
            /\ UNCHANGED <<fileQueue, pending, processed>>
    /\ UNCHANGED <<queueClosed, stopChanClosed, closed, mu, stopPc, dirVars, scanVars, lineVars, reportVars, appVars,
                   storeVars, wk, faults, panicked>>

\* processFile: w.markAsProcessed(hash), in the case of the sent entry.
LegacyMark ==
    /\ Running
    /\ wpc = "mark"
    /\ processed' = markAsProcessed(pending.Hash)
    /\ pending' = NoInfo
    /\ entries' = Tail(entries)
    /\ wpc' = AfterCandidate(Tail(entries))
    /\ UNCHANGED <<fileQueue, queueClosed, stopChanClosed, closed, mu,
                   stopPc, skipLog, dirVars, scanVars, lineVars, reportVars, appVars, storeVars, wk, faults,
                   panicked>>

\* Stop: close(w.stopChan)
LegacyStop(s) ==
    /\ Running
    /\ stopPc[s] = "idle"
    /\ IF stopChanClosed
       THEN /\ panicked' = "close of closed channel"
            /\ UNCHANGED <<stopChanClosed, stopPc>>
       ELSE /\ stopChanClosed' = TRUE
            /\ stopPc' = [stopPc EXCEPT ![s] = "done"]
            /\ UNCHANGED panicked
    /\ UNCHANGED <<fileQueue, queueClosed, closed, mu, wpc, entries, pending,
                   legacyVars, dirVars, scanVars, lineVars, reportVars, appVars, storeVars, wk, faults>>

OneLiners == {<<"valid">>, <<"invalid">>}

InitLegacy ==
    /\ watchDir \in [FileNames -> OneLiners]
    /\ stopPc = [s \in Stoppers |-> "idle"]
    /\ OneDevice
    /\ InitRest
    /\ NoScanInput
    /\ NoLineInput

NextLegacy ==
    \/ ScanBegin
    \/ WatcherExit
    \/ LegacyOffer
    \/ LegacyMark
    \/ \E s \in Stoppers : LegacyStop(s)
    \/ \E w \in Workers : Receive(w)
    \/ \E w \in Workers : Lookup(w)
    \/ \E w \in Workers : CreateFile(w)
    \/ \E w \in Workers : SaveError(w)
    \/ \E w \in Workers : SaveRow(w)
    \/ \E w \in Workers : UpdateProgress(w)
    \/ \E w \in Workers : UpdateStatus(w)

SpecLegacy == InitLegacy /\ [][NextLegacy]_vars

\* The ticker keeps firing, the scan goroutine keeps running and the
\* consumers keep receiving while there is something to receive.
FairLegacy ==
    /\ WF_vars(ScanBegin)
    /\ WF_vars(LegacyOffer)
    /\ WF_vars(LegacyMark)
    /\ \A w \in Workers :
         WF_vars(Receive(w) \/ Lookup(w) \/ CreateFile(w) \/ SaveError(w)
                 \/ SaveRow(w) \/ UpdateProgress(w) \/ UpdateStatus(w))

SpecLegacyFair == SpecLegacy /\ FairLegacy

\* ------------------------------------------------------------ SendToQueue
\* The FileInfo an external component hands to SendToQueue.
OfferInfo == FileInfoOf(FileList[1])

\* SendToQueue enters its select: a send on the closed queue panics, a free
\* slot takes the entry and the call returns nil, a full queue leaves the
\* caller waiting.
SendToQueueEnter ==
    /\ Running
    /\ offer.pc = "idle"
    /\ IF queueClosed
       THEN /\ panicked' = "send on closed channel"
            /\ UNCHANGED <<fileQueue, offer>>
       ELSE IF Len(fileQueue) < QueueSize
       THEN /\ fileQueue' = Append(fileQueue, OfferInfo)
            /\ offer' = [pc |-> "done", ret |-> "ok"]
            /\ UNCHANGED panicked
       ELSE /\ offer' = [pc |-> "waiting", ret |-> "none"]
            /\ UNCHANGED <<fileQueue, panicked>>
    /\ UNCHANGED <<queueClosed, stopChanClosed, closed, mu, stopPc, wpc,
                   entries, pending, dirVars, scanVars, lineVars, reportVars, legacyVars, storeVars, wk,
                   faults, shutdown, storeClosed>>

\* SendToQueue: case w.fileQueue <- fileInfo, after waiting for a slot.
SendToQueueSend ==
    /\ Running
    /\ offer.pc = "waiting"
    /\ IF queueClosed
       THEN /\ panicked' = "send on closed channel"
            /\ UNCHANGED <<fileQueue, offer>>
       ELSE /\ Len(fileQueue) < QueueSize
            /\ fileQueue' = Append(fileQueue, OfferInfo)
            /\ offer' = [pc |-> "done", ret |-> "ok"]
            /\ UNCHANGED panicked
    /\ UNCHANGED <<queueClosed, stopChanClosed, closed, mu, stopPc, wpc,
                   entries, pending, dirVars, scanVars, lineVars, reportVars, legacyVars, storeVars, wk,
                   faults, shutdown, storeClosed>>

\* A timeout that reports the full queue and queues the entry all the same.
SendToQueueTimeoutQueues ==
    /\ Running
    /\ offer.pc = "waiting"
    /\ ~queueClosed
    /\ Len(fileQueue) = QueueSize
    /\ fileQueue' = Append(fileQueue, OfferInfo)
    /\ offer' = [pc |-> "done", ret |-> "full"]
    /\ UNCHANGED <<queueClosed, stopChanClosed, closed, mu, stopPc, wpc,
                   entries, pending, dirVars, scanVars, lineVars, reportVars, legacyVars, storeVars, wk,
                   faults, shutdown, storeClosed, panicked>>

\* SendToQueue: case <-time.After(5 * time.Second): "queue is full, timeout
\* after 5s".
SendToQueueTimeout ==
    /\ Running
    /\ offer.pc = "waiting"
    /\ ~queueClosed
    /\ Len(fileQueue) = QueueSize
    /\ offer' = [pc |-> "done", ret |-> "full"]
    /\ UNCHANGED <<fileQueue, queueClosed, stopChanClosed, closed, mu,
                   stopPc, wpc, entries, pending, dirVars, scanVars, lineVars, reportVars, legacyVars,
                   storeVars, wk, faults, shutdown, storeClosed, panicked>>

\* The service with one file of one data line in the directory.
InitOneLiner ==
    /\ watchDir \in [{FileList[1]} -> OneLiners]
    /\ stopPc = [s \in Stoppers |-> "idle"]
    /\ OneDevice
    /\ InitRest
    /\ NoScanInput
    /\ NoLineInput

NextOffer ==
    \/ Next
    \/ SendToQueueEnter
    \/ SendToQueueSend
    \/ SendToQueueTimeout

SpecOffer == InitOneLiner /\ [][NextOffer]_vars

\* ------------------------------------------------------------ shutdown
\* App.shutdown calls Watcher.Stop as the first caller of Stop.
ShutdownStopper == 1

\* A shutdown that does not wait for the workers.
ShutdownWaitSkipped ==
    /\ Running
    /\ shutdown.pc = "idle"
    /\ stopPc[ShutdownStopper] = "done"
    /\ shutdown' = [pc |-> "close", timedOut |-> FALSE]
    /\ UNCHANGED <<watcherVars, dirVars, scanVars, lineVars, reportVars, legacyVars, storeVars, wk, faults,
                   offer, storeClosed, panicked>>

\* shutdown step 3: after Stop has returned, wait until workerWg.Wait()
\* returns or 30 s have passed.
ShutdownWait ==
    /\ Running
    /\ shutdown.pc = "idle"
    /\ stopPc[ShutdownStopper] = "done"
    /\ shutdown' = [pc |-> "close",
                    timedOut |-> \E w \in Workers : wk[w].pc # "exited"]
    /\ UNCHANGED <<watcherVars, dirVars, scanVars, lineVars, reportVars, legacyVars, storeVars, wk, faults,
                   offer, storeClosed, panicked>>

\* shutdown step 4: a.store.Close()
ShutdownClose ==
    /\ Running
    /\ shutdown.pc = "close"
    /\ storeClosed' = TRUE
    /\ shutdown' = [shutdown EXCEPT !.pc = "return"]
    /\ UNCHANGED <<watcherVars, dirVars, scanVars, lineVars, reportVars, legacyVars, storeVars, wk, faults,
                   offer, panicked>>

\* shutdown returns to main and the process exits.
ShutdownReturn ==
    /\ Running
    /\ shutdown.pc = "return"
    /\ shutdown' = [shutdown EXCEPT !.pc = "exited"]
    /\ UNCHANGED <<watcherVars, dirVars, scanVars, lineVars, reportVars, legacyVars, storeVars, wk, faults,
                   offer, storeClosed, panicked>>

NextShutdown ==
    \/ Next
    \/ ShutdownWait
    \/ ShutdownClose
    \/ ShutdownReturn

SpecShutdown == InitOneLiner /\ [][NextShutdown]_vars

\* ------------------------------------------------------------ API handler
\* The Hash field the handler of POST /files/{filename}/process puts in
\* its FileInfo: the empty string, which is the hash of no content.
ApiHash == <<"">>

\* App.processFile: when the named file exists in the watched directory
\* the handler builds a FileInfo with an empty hash and starts a goroutine
\* that calls ProcessFile with it; neither the queue nor workerWg is
\* involved.
ApiProcessFile(c) ==
    /\ Running
    /\ wk[c].pc = "api"
    /\ \E filename \in FileNames :
        /\ filename \in DOMAIN watchDir
        /\ wk' = [wk EXCEPT ![c] = [IdleWorker EXCEPT
                     !.pc = "lookup",
                     !.info = [Name |-> filename, Hash |-> ApiHash]]]
    /\ UNCHANGED <<watcherVars, dirVars, scanVars, lineVars, reportVars, appVars, legacyVars, storeVars,
                   faults, panicked>>

\* The service together with the requests of the API.
NextApi ==
    \/ Next
    \/ \E c \in ApiCallers : ApiProcessFile(c)
    \/ \E c \in ApiCallers : Lookup(c)
    \/ \E c \in ApiCallers : CreateFile(c)
    \/ \E c \in ApiCallers : SaveError(c)
    \/ \E c \in ApiCallers : SaveRow(c)
    \/ \E c \in ApiCallers : UpdateProgress(c)
    \/ \E c \in ApiCallers : UpdateStatus(c)

SpecApi == InitOneLiner /\ [][NextApi]_vars

\* ------------------------------------------------------------ Handler
\* The ingest of package handlers: scanDirectory starts one processFile
\* goroutine for a file without a record; processFile reads the file with
\* a csv reader: the first record is the header, each later record either
\* parses ("valid") or is counted as failed ("invalid").
HandlerContents ==
    {<<>>} \cup {<<"header">> \o recs :
                    recs \in SeqsUpTo({"valid", "invalid"}, MaxLines)}

GuidSet == {Guids[i] : i \in 1..Len(Guids)}

\* Handler.calculateFileHash: size and modification time of the file.
HandlerHash(content) == <<Len(content), 0>>

\* One file for the Handler; the lines after the header name any device.
InitHandler ==
    /\ watchDir \in [{FileList[1]} -> HandlerContents]
    /\ unitGuids \in [DOMAIN watchDir -> SeqsUpTo(GuidSet, MaxLines + 1)]
    /\ \A n \in DOMAIN watchDir :
          /\ Len(unitGuids[n]) = Len(watchDir[n])
          /\ unitGuids[n] # <<>> => unitGuids[n][1] = Guids[1]
    /\ stopPc = [s \in Stoppers |-> "idle"]
    /\ InitRest
    /\ NoScanInput
    /\ NoLineInput

\* scanDirectory: GetFileByFilename returns an error (no row, or the store
\* fails), so the file is handed to a new processFile goroutine.
HandlerScanDirectory ==
    /\ Running
    /\ hk.pc = "idle"
    /\ \E filename \in DOMAIN watchDir :
        /\ GetFileByFilename(filename) = NoRow
        /\ hk' = [IdleHandler EXCEPT !.pc = "create", !.filename = filename]
    /\ UNCHANGED <<watcherVars, dirVars, scanVars, lineVars, unitGuids, reports, outputDir,
                   appVars, legacyVars, storeVars, wk, faults, panicked>>

\* processFile: CreateFile with status 'processing'; on an error it
\* returns. Then the header is read: a file without one is marked failed.
HandlerCreateFile ==
    /\ Running
    /\ hk.pc = "create"
    /\ \E fail \in BOOLEAN :
        /\ Fault(fail)
        /\ IF fail \/ UniqueViolation(hk.filename)
           THEN /\ hk' = IdleHandler
                /\ UNCHANGED files
           ELSE LET id == NextFileID IN
                /\ files' = files \cup
                     {NewFileRow(id, hk.filename,
                                 HandlerHash(watchDir[hk.filename]),
                                 "processing")}
                /\ hk' = [hk EXCEPT !.fileID = id,
                            !.pc = IF watchDir[hk.filename] = <<>>
                                   THEN "error" ELSE "read"]
    /\ UNCHANGED <<watcherVars, dirVars, scanVars, lineVars, unitGuids, reports, outputDir,
                   appVars, legacyVars, device_data, processing_errors, wk,
                   panicked>>

\* updateFileWithError: status 'failed'; the result of the update is not
\* looked at. processFile returns.
HandlerUpdateFileWithError ==
    /\ Running
    /\ hk.pc = "error"
    /\ \E fail \in BOOLEAN :
        /\ Fault(fail)
        /\ files' = IF fail THEN files ELSE WithStatus(hk.fileID, "failed")
    /\ hk' = IdleHandler
    /\ UNCHANGED <<watcherVars, dirVars, scanVars, lineVars, unitGuids, reports, outputDir,
                   appVars, legacyVars, device_data, processing_errors, wk,
                   panicked>>

\* The read loop: lineNumber++, then io.EOF ends it, a record that does not
\* parse is counted in rowsFailed and written as a processing error (the
\* result of the insert is not looked at), any other record is kept.
HandlerRead ==
    /\ Running
    /\ hk.pc = "read"
    /\ LET lineNumber == hk.lineNumber + 1
           content == watchDir[hk.filename] IN
       IF lineNumber > Len(content)
       THEN /\ hk' = [hk EXCEPT !.lineNumber = lineNumber,
                         !.pc = IF hk.data = <<>> THEN "progress"
                                ELSE "save"]
            /\ UNCHANGED <<processing_errors, faults>>
       ELSE IF content[lineNumber] = "valid"
       THEN /\ hk' = [hk EXCEPT !.lineNumber = lineNumber,
                         !.data = Append(@, unitGuids[hk.filename][lineNumber]),
                         !.rowsProcessed = @ + 1]
            /\ UNCHANGED <<processing_errors, faults>>
       ELSE /\ hk' = [hk EXCEPT !.lineNumber = lineNumber,
                         !.rowsFailed = @ + 1]
            /\ \E fail \in BOOLEAN :
                /\ Fault(fail)
                /\ processing_errors' =
                      IF fail THEN processing_errors
                      ELSE Append(processing_errors,
                                  [file_id |-> hk.fileID,
                                   line_number |-> lineNumber])
    /\ UNCHANGED <<watcherVars, dirVars, scanVars, lineVars, unitGuids, reports, outputDir,
                   appVars, legacyVars, files, device_data, wk, panicked>>

\* saveDeviceData: CreateDeviceData for the next item, with LineNumber 0;
\* the first failed insert ends the loop and the file is marked failed.
HandlerSaveDeviceData ==
    /\ Running
    /\ hk.pc = "save"
    /\ \E fail \in BOOLEAN :
        /\ Fault(fail)
        /\ IF fail
           THEN /\ hk' = [hk EXCEPT !.pc = "error"]
                /\ UNCHANGED device_data
           ELSE /\ device_data' = Append(device_data,
                                    [file_id |-> hk.fileID, line_number |-> 0])
                /\ hk' = [hk EXCEPT !.data = Tail(@),
                            !.units = @ \cup {Head(hk.data)},
                            !.pc = IF Tail(hk.data) = <<>> THEN "progress"
                                   ELSE "save"]
    /\ UNCHANGED <<watcherVars, dirVars, scanVars, lineVars, unitGuids, reports, outputDir,
                   appVars, legacyVars, files, processing_errors, wk,
                   panicked>>

\* UpdateFileProgress; the result is not looked at.
HandlerUpdateFileProgress ==
    /\ Running
    /\ hk.pc = "progress"
    /\ \E fail \in BOOLEAN :
        /\ Fault(fail)
        /\ files' = IF fail THEN files
                    ELSE WithProgress(hk.fileID, hk.rowsProcessed,
                                      hk.rowsFailed)
    /\ hk' = [hk EXCEPT !.pc = IF hk.units = {} THEN "status" ELSE "reports"]
    /\ UNCHANGED <<watcherVars, dirVars, scanVars, lineVars, unitGuids, reports, outputDir,
                   appVars, legacyVars, device_data, processing_errors, wk,
                   panicked>>

\* The same with a failure ending the loop over the devices.
HandlerGenerateReportStopsAtFailure ==
    /\ Running
    /\ hk.pc = "reports"
    /\ \E unitGuid \in hk.units, written \in BOOLEAN, fail \in BOOLEAN :
        LET row == ReportRow(unitGuid, hk.fileID) IN
        /\ hk' = [hk EXCEPT !.units = @ \ {unitGuid},
                     !.failedUnits = IF written /\ ~fail THEN @
                                     ELSE @ \cup {unitGuid},
                     !.pc = IF hk.units = {unitGuid} \/ ~written \/ fail
                            THEN "status" ELSE "reports"]
        /\ IF written
           THEN /\ outputDir' = outputDir \cup {row.file_path}
                /\ Fault(fail)
                /\ reports' = IF fail THEN reports ELSE Append(reports, row)
           ELSE /\ ~fail
                /\ UNCHANGED <<outputDir, reports, faults>>
    /\ UNCHANGED <<watcherVars, dirVars, scanVars, lineVars, unitGuids, appVars, legacyVars,
                   storeVars, wk, panicked>>

\* Handler.generateReports, for one device of the map (Go ranges over a
\* map in any order): createPDFReport writes the report file or fails, and
\* then the device is passed over; CreateReport inserts the row, and the
\* result of the insert is not looked at.
HandlerGenerateReport ==
    /\ Running
    /\ hk.pc = "reports"
    /\ \E unitGuid \in hk.units, written \in BOOLEAN, fail \in BOOLEAN :
        LET row == ReportRow(unitGuid, hk.fileID) IN
        /\ hk' = [hk EXCEPT !.units = @ \ {unitGuid},
                     !.failedUnits = IF written /\ ~fail THEN @
                                     ELSE @ \cup {unitGuid},
                     !.pc = IF hk.units = {unitGuid} THEN "status"
                            ELSE "reports"]
        /\ IF written
           THEN /\ outputDir' = outputDir \cup {row.file_path}
                /\ Fault(fail)
                /\ reports' = IF fail THEN reports ELSE Append(reports, row)
           ELSE /\ ~fail
                /\ UNCHANGED <<outputDir, reports, faults>>
    /\ UNCHANGED <<watcherVars, dirVars, scanVars, lineVars, unitGuids, appVars, legacyVars,
                   storeVars, wk, panicked>>

\* UpdateFileStatus to 'completed'; the result is not looked at.
\* processFile returns.
HandlerUpdateFileStatus ==
    /\ Running
    /\ hk.pc = "status"
    /\ \E fail \in BOOLEAN :
        /\ Fault(fail)
        /\ files' = IF fail THEN files
                    ELSE WithStatus(hk.fileID, "completed")
    /\ hk' = IdleHandler
    /\ UNCHANGED <<watcherVars, dirVars, scanVars, lineVars, unitGuids, reports, outputDir,
                   appVars, legacyVars, device_data, processing_errors, wk,
                   panicked>>

NextHandler ==
    \/ HandlerScanDirectory
    \/ HandlerCreateFile
    \/ HandlerUpdateFileWithError
    \/ HandlerRead
    \/ HandlerSaveDeviceData
    \/ HandlerUpdateFileProgress
    \/ HandlerGenerateReport
    \/ HandlerUpdateFileStatus

SpecHandler == InitHandler /\ [][NextHandler]_vars

\* ------------------------------------------------------------ file I/O
\* parseTSVFile when os.Open fails: no rows, and one error whose line
\* number is NULL (written 0 here; the lines of a file count from 1).
OpenFailed == [rows |-> <<>>, errors |-> <<[line_number |-> 0]>>]

\* ProcessFile steps 2 and 3 for a file that cannot be opened any more
\* (removed or made unreadable after the Watcher hashed it): CreateFile
\* inserts the record, parseTSVFile returns the open error.
CreateFileOpenFails(w) ==
    /\ Running
    /\ wk[w].pc = "create"
    /\ ~storeClosed
    /\ ~UniqueViolation(wk[w].info.Name)
    /\ LET id == NextFileID IN
        /\ files' = files \cup
              {NewFileRow(id, wk[w].info.Name, wk[w].info.Hash,
                          "processing")}
        /\ wk' = [wk EXCEPT ![w] = [wk[w] EXCEPT
                     !.fileID = id, !.created = TRUE,
                     !.rows = OpenFailed.rows, !.errors = OpenFailed.errors,
                     !.pc = AfterParse(OpenFailed.rows, OpenFailed.errors)]]
    /\ UNCHANGED <<watcherVars, dirVars, scanVars, lineVars, reportVars, appVars, legacyVars,
                   device_data, processing_errors, faults, panicked>>

\* The service with files that may fail to open.
NextOpen ==
    \/ Next
    \/ \E w \in Workers : CreateFileOpenFails(w)

SpecOpen == InitOneLiner /\ [][NextOpen]_vars

\* ------------------------------------------------------------ parseLine
\* parseLine field by field. A record is the sequence of its fields, as
\* strings.Split(rawLine, "\t") gives them; field i of the code is field
\* i + 1 here.

NilUUID == "00000000-0000-0000-0000-000000000000"
DeviceUUID == "01749246-95f6-57db-b7c3-2ae0e8be671f"

\* uuid.Parse succeeds on the well-formed texts.
WellFormedUUIDs == {NilUUID, DeviceUUID}

\* strconv.ParseInt(field, 10, 32) succeeds on the decimal numerals.
Numerals == {"0", "1", "100"}

\* parseInvertBit: the spellings of true and of false; "da" and "net" stand
\* for the two Russian words.
TrueWords == {"true", "1", "da", "yes"}
FalseWords == {"false", "0", "net", "no", ""}

\* The values of the fields the code validates or the claims speak of.
UnitGuidFields == {"", "not-a-uuid", NilUUID, DeviceUUID}
ClassFields == {"", "alarm", "working", "INVALID_CLASS"}
LevelFields == {"", "100", "abc"}
BitFields == {"", "1", "x"}
InvertBitFields == {"", "yes", "maybe"}

\* The numbers of fields of a record: up to unit_guid, up to msg_id, up to
\* class, up to level, and all fifteen.
FieldCounts == {4, 5, 8, 9, 15}

RecordOf(n, guid, class, level, bit, invertBit) ==
    [i \in 1..n |-> CASE i = 4 -> guid
                      [] i = 8 -> class
                      [] i = 9 -> level
                      [] i = 14 -> bit
                      [] i = 15 -> invertBit
                      [] OTHER -> ""]

Records ==
    {RecordOf(n, g, c, l, b, ib) :
        n \in FieldCounts, g \in UnitGuidFields, c \in ClassFields,
        l \in LevelFields, b \in BitFields, ib \in InvertBitFields}

\* sql.NullString{}: the column is NULL.
Null == "NULL"

\* TSVRow{LineNumber: lineNumber}; uuid.UUID's zero value is uuid.Nil.
EmptyTSVRow(lineNumber) ==
    [line_number |-> lineNumber, unit_guid |-> NilUUID, class |-> Null,
     level |-> Null, bit |-> Null, invert_bit |-> Null]

LineError(message) == [ok |-> FALSE, err |-> message]

\* parseLine: the loop over the fields, from field i on.
RECURSIVE parseFields(_, _, _)
parseFields(fields, i, row) ==
    IF i > Len(fields)
    THEN IF row.unit_guid = NilUUID
         THEN LineError("unit_guid is required")
         ELSE [ok |-> TRUE, row |-> row]
    ELSE LET field == fields[i] IN
         IF i = 4
         THEN IF field = "" THEN LineError("unit_guid is required")
              ELSE IF field \notin WellFormedUUIDs
              THEN LineError("invalid unit_guid format")
              ELSE parseFields(fields, i + 1,
                               [row EXCEPT !.unit_guid = field])
         ELSE IF i = 8
         THEN parseFields(fields, i + 1,
                          IF field # "" THEN [row EXCEPT !.class = field]
                          ELSE row)
         ELSE IF i = 9 /\ field # ""
         THEN IF field \notin Numerals THEN LineError("invalid level")
              ELSE parseFields(fields, i + 1, [row EXCEPT !.level = field])
         ELSE IF i = 14 /\ field # ""
         THEN IF field \notin Numerals THEN LineError("invalid bit")
              ELSE parseFields(fields, i + 1, [row EXCEPT !.bit = field])
         ELSE IF i = 15 /\ field # ""
         THEN IF field \notin TrueWords \cup FalseWords
              THEN LineError("invalid invert_bit")
              ELSE parseFields(fields, i + 1,
                               [row EXCEPT !.invert_bit = field \in TrueWords])
         ELSE parseFields(fields, i + 1, row)

\* parseLine(fields, lineNumber, rawLine)
parseLineFields(fields, lineNumber) ==
    IF Len(fields) < 5 THEN LineError("insufficient fields")
    ELSE parseFields(fields, 1, EmptyTSVRow(lineNumber))

\* One record of any shape is given to parseLine.
InitLine ==
    /\ lineIn \in Records
    /\ lineOut = NotParsed
    /\ watchDir = <<>>
    /\ stopPc = [s \in Stoppers |-> "idle"]
    /\ OneDevice
    /\ InitRest
    /\ NoScanInput

\* parseTSVFile: row, err := p.parseLine(fields, lineNumber, rawLine)
LineParse ==
    /\ lineOut = NotParsed
    /\ lineOut' = parseLineFields(lineIn, 1)
    /\ UNCHANGED <<watcherVars, dirVars, scanVars, lineIn, reportVars,
                   appVars, legacyVars, storeVars, wk, faults, panicked>>

\* ProcessFile: CreateDeviceData copies the columns of the row.
LineSaveRow ==
    /\ lineOut.ok
    /\ device_data = <<>>
    /\ device_data' = Append(device_data,
                             [file_id |-> 1,
                              line_number |-> lineOut.row.line_number,
                              unit_guid |-> lineOut.row.unit_guid,
                              class |-> lineOut.row.class])
    /\ UNCHANGED <<watcherVars, dirVars, scanVars, lineVars, reportVars,
                   appVars, legacyVars, files, processing_errors, wk, faults,
                   panicked>>

\* ProcessFile: CreateProcessingError keeps the message of the line error.
LineSaveError ==
    /\ ~lineOut.ok
    /\ lineOut # NotParsed
    /\ processing_errors = <<>>
    /\ processing_errors' = Append(processing_errors,
                                   [file_id |-> 1, line_number |-> 1,
                                    error_message |-> lineOut.err])
    /\ UNCHANGED <<watcherVars, dirVars, scanVars, lineVars, reportVars,
                   appVars, legacyVars, files, device_data, wk, faults,
                   panicked>>

NextLine ==
    \/ LineParse
    \/ LineSaveRow
    \/ LineSaveError

SpecLine == InitLine /\ [][NextLine]_vars

\* ------------------------------------------------------------ directory
\* scanDirectory over a directory that holds more than .tsv files. A file
\* name is the sequence of its characters.

TsvLower == <<"a", ".", "t", "s", "v">>
TsvUpper == <<"B", ".", "T", "S", "V">>
HiddenTsv == <<".", "h", ".", "t", "s", "v">>
TextFile == <<"c", ".", "t", "x", "t">>
TsvOrDir == <<"d", ".", "t", "s", "v">>

\* os.ReadDir returns the entries sorted by file name, byte by byte.
DirList == <<HiddenTsv, TsvUpper, TsvLower, TextFile, TsvOrDir>>
DirNames == {DirList[i] : i \in 1..Len(DirList)}

\* strings.HasPrefix(s, prefix), strings.HasSuffix(s, suffix)
HasPrefix(s, prefix) ==
    Len(s) >= Len(prefix) /\ SubSeq(s, 1, Len(prefix)) = prefix
HasSuffix(s, suffix) ==
    /\ Len(s) >= Len(suffix)
    /\ SubSeq(s, Len(s) - Len(suffix) + 1, Len(s)) = suffix

\* strings.ToLower, on the letters the names are written with.
LowerCase(c) ==
    CASE c = "B" -> "b"
      [] c = "T" -> "t"
      [] c = "S" -> "s"
      [] c = "V" -> "v"
      [] OTHER -> c
ToLower(s) == [i \in 1..Len(s) |-> LowerCase(s[i])]

\* entry.IsDir()
IsDir(name) == name \in subDirs

\* A filter that lets the hidden files through.
IsCandidateWithHidden(name) ==
    /\ ~IsDir(name)
    /\ HasSuffix(ToLower(name), <<".", "t", "s", "v">>)

\* scanDirectory: the entry is passed to processFile.
IsCandidate(name) ==
    /\ ~(IsDir(name) \/ HasPrefix(name, <<".">>))
    /\ HasSuffix(ToLower(name), <<".", "t", "s", "v">>)

\* Any files and sub-directories under the names of DirList; every file
\* holds one valid record.
InitDir ==
    /\ \E F \in SUBSET DirNames :
          /\ watchDir = [n \in F |-> <<"valid">>]
          /\ subDirs \in SUBSET ({TsvOrDir} \ F)
    /\ scanLog = {}
    /\ stopPc = [s \in Stoppers |-> "idle"]
    /\ OneDevice
    /\ InitRest
    /\ NoLineInput

\* os.ReadDir(w.watchDir): the files and the sub-directories, sorted.
InDirListing(name) == name \in DOMAIN watchDir \/ name \in subDirs
DirListing == SelectSeq(DirList, InDirListing)

\* Start: one scan at once, then one per tick; scanDirectory reads the
\* directory.
DirScanBegin ==
    /\ Running
    /\ wpc \in {"start", "idle"}
    /\ entries' = DirListing
    /\ wpc' = AfterCandidate(DirListing)
    /\ UNCHANGED <<fileQueue, queueClosed, stopChanClosed, closed, mu,
                   stopPc, pending, dirVars, scanVars, lineVars, reportVars,
                   appVars, legacyVars, storeVars, wk, faults, panicked>>

\* scanDirectory: continue, for an entry the filter passes over.
DirSkipEntry ==
    /\ Running
    /\ wpc = "scan"
    /\ entries # <<>>
    /\ ~IsCandidate(Head(entries))
    /\ entries' = Tail(entries)
    /\ wpc' = AfterCandidate(Tail(entries))
    /\ UNCHANGED <<fileQueue, queueClosed, stopChanClosed, closed, mu,
                   stopPc, pending, dirVars, scanVars, lineVars, reportVars,
                   appVars, legacyVars, storeVars, wk, faults, panicked>>

\* A stat or hash error that gives up the whole scan.
DirCandidateErrorEndsScan ==
    /\ Running
    /\ wpc = "scan"
    /\ entries # <<>>
    /\ IsCandidate(Head(entries))
    /\ Head(entries) \notin scanLog
    /\ scanLog' = scanLog \cup {Head(entries)}
    /\ entries' = <<>>
    /\ wpc' = "idle"
    /\ UNCHANGED <<fileQueue, queueClosed, stopChanClosed, closed, mu,
                   stopPc, pending, dirVars, subDirs, lineVars, reportVars,
                   appVars, legacyVars, storeVars, wk, faults, panicked>>

\* processFile: os.Stat or calculateFileHash fails (the file is being
\* replaced, or cannot be read); the error is logged and processFile
\* returns. A file fails so at most once in a behaviour.
DirCandidateError ==
    /\ Running
    /\ wpc = "scan"
    /\ entries # <<>>
    /\ IsCandidate(Head(entries))
    /\ Head(entries) \notin scanLog
    /\ scanLog' = scanLog \cup {Head(entries)}
    /\ entries' = Tail(entries)
    /\ wpc' = AfterCandidate(Tail(entries))
    /\ UNCHANGED <<fileQueue, queueClosed, stopChanClosed, closed, mu,
                   stopPc, pending, dirVars, subDirs, lineVars, reportVars,
                   appVars, legacyVars, storeVars, wk, faults, panicked>>

\* processFile for an entry the filter lets through: stat and hash succeed
\* and the select is entered.
DirOffer ==
    /\ Running
    /\ wpc = "scan"
    /\ entries # <<>>
    /\ IsCandidate(Head(entries))
    /\ OfferCandidate

\* The scan, and the workers as the receivers of the queue.
NextDir ==
    \/ DirScanBegin
    \/ DirSkipEntry
    \/ DirCandidateError
    \/ DirOffer
    \/ BlockedSend
    \/ BlockedTimeout
    \/ \E w \in Workers : Receive(w)

SpecDir == InitDir /\ [][NextDir]_vars

\* ------------------------------------------------------------ fairness
\* The Go scheduler runs every goroutine that can take a step: the scan
\* goroutine and its ticker, a Stop that holds the mutex, and each worker.
Fair ==
    /\ WF_vars(ScanBegin)
    /\ WF_vars(OfferCandidate \/ BlockedSend)
    /\ \A s \in Stoppers : WF_vars(StopCloseQueue(s))
    /\ \A w \in Workers :
         WF_vars(Receive(w) \/ Lookup(w) \/ CreateFile(w) \/ SaveError(w)
                 \/ SaveRow(w) \/ UpdateProgress(w) \/ UpdateStatus(w))

SpecFair == Spec /\ Fair

\* The same, for one file of one data line.
SpecOneLinerFair == InitOneLiner /\ [][Next]_vars /\ Fair

\* ------------------------------------------------------------ claims
Terminal == {"completed", "partial", "failed"}

FileRow(fs, id) == CHOOSE f \in fs : f.id = id

\* The worker is between CreateFile and the return of ProcessFile.
Ingesting(w) == wk[w].pc \in {"errors", "rows", "progress", "status"}

\* The last ProcessFile call of the worker has returned.
Returned(w) == wk[w].pc = "recv" /\ wk[w].ret # "none"

\* C1: a reader of the store never sees a FileRecord in status
\* 'processing', nor rows or errors of a file whose terminal status is not
\* visible yet.
C1_AtomicVisibility ==
    /\ \A f \in files : f.status \in Terminal
    /\ \A i \in DOMAIN device_data :
         \E f \in files : f.id = device_data[i].file_id
                          /\ f.status \in Terminal
    /\ \A i \in DOMAIN processing_errors :
         \E f \in files : f.id = processing_errors[i].file_id
                          /\ f.status \in Terminal

\* C2: however two workers interleave on one filename, there is at most one
\* FileRecord for it, no DeviceRow is stored twice, every row and error
\* belongs to a record, and only the call that created the record inserts.
C2_OneIngestPerFilename ==
    /\ \A f, g \in files : f.filename = g.filename => f = g
    /\ \A i, j \in DOMAIN device_data :
         device_data[i] = device_data[j] => i = j
    /\ \A i \in DOMAIN device_data :
         \E f \in files : f.id = device_data[i].file_id
    /\ \A i \in DOMAIN processing_errors :
         \E f \in files : f.id = processing_errors[i].file_id
    /\ \A v, w \in Workers :
         (wk[v].created /\ wk[w].created /\ wk[v].fileID = wk[w].fileID)
            => v = w
    /\ \A w \in Workers : Ingesting(w) => wk[w].created

\* One worker lost the race on the unique filename (no store fault was
\* involved) while the other one created the record and stored rows.
C2_Witness ==
    \E v, w \in Workers :
        /\ v # w
        /\ Returned(v) /\ wk[v].ret = "error" /\ faults = 0
        /\ wk[w].created /\ wk[w].info.Name = wk[v].info.Name
        /\ device_data # <<>>

\* A record with the name and hash of the worker's file exists and no call
\* is still working on it.
DedupeHit(w) ==
    /\ wk[w].pc = "lookup"
    /\ \E f \in files :
         /\ f.filename = wk[w].info.Name
         /\ f.file_hash = wk[w].info.Hash
         /\ \A v \in Workers : Ingesting(v) => wk[v].fileID # f.id

\* C3: a ProcessFile call for a filename and hash that a completed call has
\* already ingested returns ok and changes nothing in the store; the
\* filename still has exactly one FileRecord.
C3_IdempotentOnContent ==
    [][\A w \in Workers :
         (DedupeHit(w) /\ wk'[w] # wk[w])
            => /\ wk'[w].pc = "recv"
               /\ wk'[w].ret = "ok"
               /\ UNCHANGED storeVars
               /\ Cardinality({f \in files' :
                                 f.filename = wk[w].info.Name}) = 1]_vars

\* A second call has returned ok without creating anything, for a file
\* whose rows are stored.
C3_Witness ==
    \E w \in Workers :
        /\ Returned(w) /\ wk[w].ret = "ok" /\ ~wk[w].created
        /\ \E f \in files : /\ f.filename = wk[w].info.Name
                            /\ f.status \in Terminal
                            /\ \E i \in DOMAIN device_data :
                                 device_data[i].file_id = f.id

ClaimedStatus(successCount, failedCount) ==
    IF successCount = 0 THEN "failed"
    ELSE IF failedCount > 0 THEN "partial"
    ELSE "completed"

\* C4: the terminal status ProcessFile writes is 'failed' when successCount
\* is 0, else 'partial' when failedCount > 0, else 'completed'.
C4_StatusFromCounters ==
    [][\A w \in Workers :
         (wk[w].pc = "status" /\ wk'[w].pc = "recv" /\ files' # files)
            => FileRow(files', wk[w].fileID).status
                 = ClaimedStatus(wk[w].successCount, wk[w].failedCount)]_vars

\* The records of a file that are neither comments nor the skipped header.
RECURSIVE NonSkipped(_, _, _)
NonSkipped(lines, n, first) ==
    IF n > Len(lines) THEN 0
    ELSE IF lines[n] \in {"blank", "comment"}
         THEN NonSkipped(lines, n + 1, first)
    ELSE IF first /\ lines[n] = "header"
         THEN NonSkipped(lines, n + 1, FALSE)
    ELSE 1 + NonSkipped(lines, n + 1, FALSE)

\* C5 (as claimed): for every file in a terminal status, rows_processed +
\* rows_failed is the number of its non-skipped records, line errors
\* included.
C5_CountersCoverAllRecords ==
    \A f \in files :
        f.status \in Terminal
           => f.rows_processed + f.rows_failed
                = NonSkipped(watchDir[f.filename], 1, TRUE)

\* C5 (amended): for every file in a terminal status, rows_processed +
\* rows_failed is the number of records that parsed into a row, or both
\* counters are still 0 because the progress update failed.
C5_CountersCoverParsedRows ==
    \A f \in files :
        f.status \in Terminal
           => \/ f.rows_processed + f.rows_failed
                   = Len(parseTSVFile(watchDir[f.filename]).rows)
              \/ (f.rows_processed = 0 /\ f.rows_failed = 0)

\* A file with a stored row and a line error has reached a terminal status.
C5_Witness ==
    \E f \in files :
        /\ f.status \in Terminal
        /\ f.rows_processed > 0
        /\ parseTSVFile(watchDir[f.filename]).errors # <<>>

\* C6: once ProcessFile has returned ok for a file it ingested, the file is
\* out of the watched directory: in the archive directory when completed or
\* partial, in the error directory when failed.
C6_FileDisposition ==
    \A w \in Workers :
        (Returned(w) /\ wk[w].ret = "ok" /\ wk[w].created)
           => /\ wk[w].info.Name \notin DOMAIN watchDir
              /\ LET st == FileRow(files, wk[w].fileID).status IN
                 /\ st \in {"completed", "partial"}
                      => wk[w].info.Name \in archiveDir
                 /\ st = "failed" => wk[w].info.Name \in errorDir

\* C7: a file is moved only once its ingest is committed; a call whose
\* persistence failed returns an error, leaves the file in place and leaves
\* no FileRecord of its own visible.
C7_MoveAfterCommit ==
    /\ \A n \in archiveDir \cup errorDir :
         \E f \in files : f.filename = n /\ f.status \in Terminal
    /\ \A w \in Workers :
         (Returned(w) /\ wk[w].writeErr)
            => /\ wk[w].ret = "error"
               /\ wk[w].info.Name \in DOMAIN watchDir
               /\ ~ \E f \in files : f.id = wk[w].fileID

\* C8: no call of Stop closes a closed channel; once a call of Stop has
\* returned the queue is closed, and a worker sees the end of the stream
\* only on the closed queue.
C8_StopIdempotent ==
    /\ panicked # "close of closed channel"
    /\ \A s \in Stoppers :
         stopPc[s] = "done" => queueClosed /\ stopChanClosed /\ closed
    /\ \A w \in Workers : wk[w].pc = "exited" => queueClosed

\* Every caller of Stop has returned and a worker has seen the end of the
\* stream.
C8_Witness ==
    /\ \A s \in Stoppers : stopPc[s] = "done"
    /\ \E w \in Workers : wk[w].pc = "exited"

C10_MarkedOnlyWhenQueued ==
    /\ [][/\ (wpc # "mark" /\ wpc' = "mark")
             => /\ pending' = FileInfoOf(Head(entries))
                /\ ~isProcessed(pending'.Hash)
                /\ fileQueue' = Append(fileQueue, pending')
                /\ Len(fileQueue') <= QueueSize
          /\ processed' # processed
             => /\ wpc = "mark"
                /\ processed' = processed \cup {pending.Hash}
          /\ skipLog' # skipLog
             => /\ Len(fileQueue) = QueueSize
                /\ UNCHANGED <<fileQueue, processed>>
                /\ \A n \in skipLog' \ skipLog :
                     calculateFileHash(watchDir[n]) \notin processed']_vars
    /\ \A n \in FileNames :
         (n \in skipLog)
            ~> \/ calculateFileHash(watchDir[n]) \in processed
               \/ stopChanClosed

\* b.tsv was dropped on the full queue and has been queued and marked by a
\* later scan.
C10_Witness ==
    /\ watchDir[FileList[1]] # watchDir[FileList[2]]
    /\ FileList[2] \in skipLog
    /\ calculateFileHash(watchDir[FileList[2]]) \in processed
    /\ ~stopChanClosed

\* C11: the Watcher puts a content hash on the queue at most once: an entry
\* never waits in the queue while a worker holds an entry of the same hash
\* that it received before.
C11_EnqueuedOncePerHash ==
    \A i \in DOMAIN fileQueue : \A w \in Workers :
        wk[w].info # NoInfo => wk[w].info.Hash # fileQueue[i].Hash

\* C12: whenever a worker holds an entry it received from the queue, the
\* hash of the entry is in the processed set.
C12_MarkedBeforeVisible ==
    \A w \in Workers :
        wk[w].info # NoInfo => isProcessed(wk[w].info.Hash)

\* C13: SendToQueue returns nil exactly when it has appended its entry to a
\* queue with a free slot, at once when the open queue has room; it returns
\* the 'queue is full' error only after waiting on a queue that is still
\* full, and then leaves the queue as it was.
C13_SendToQueueOutcome ==
    [][/\ (offer.pc = "idle" /\ offer' # offer /\ ~queueClosed
             /\ Len(fileQueue) < QueueSize)
          => offer'.ret = "ok"
       /\ (offer.pc # "done" /\ offer'.pc = "done")
          => \/ /\ offer'.ret = "ok"
                /\ Len(fileQueue) < QueueSize
                /\ fileQueue' = Append(fileQueue, OfferInfo)
             \/ /\ offer'.ret = "full"
                /\ offer.pc = "waiting"
                /\ Len(fileQueue) = QueueSize
                /\ fileQueue' = fileQueue]_vars

\* SendToQueue has returned the 'queue is full' error on a full queue.
C13_Witness ==
    /\ offer = [pc |-> "done", ret |-> "full"]
    /\ Len(fileQueue) = QueueSize
    /\ panicked = "no"

\* C14: a worker leaves its loop only on the closed queue, and once Stop
\* has closed the queue the entries left in it are received and every
\* worker exits.
C14_WorkersDrainAndExit ==
    /\ [](\A w \in Workers : wk[w].pc = "exited" => queueClosed)
    /\ queueClosed ~> (fileQueue = <<>>
                       /\ \A w \in Workers : wk[w].pc = "exited")

\* The caller is inside a ProcessFile call.
InCall(c) ==
    wk[c].pc \in {"lookup", "create", "errors", "rows", "progress", "status"}

\* C15: an entry leaves the queue only by being received, from the head, by
\* exactly one worker, which starts one ProcessFile call for it and keeps
\* it until the call returns; nothing else removes or reorders entries.
C15_OneWorkerPerEntry ==
    [][/\ \A w \in Workers :
            (wk[w].pc = "recv" /\ wk'[w].pc = "lookup")
               => /\ fileQueue # <<>>
                  /\ wk'[w].info = Head(fileQueue)
                  /\ fileQueue' = Tail(fileQueue)
                  /\ \A v \in Workers \ {w} : wk'[v] = wk[v]
       /\ fileQueue' # fileQueue
            => \/ /\ Len(fileQueue') = Len(fileQueue) + 1
                  /\ SubSeq(fileQueue', 1, Len(fileQueue)) = fileQueue
               \/ /\ fileQueue # <<>>
                  /\ fileQueue' = Tail(fileQueue)
                  /\ \E w \in Workers : /\ wk[w].pc = "recv"
                                        /\ wk'[w].pc = "lookup"
       /\ \A w \in Workers :
            (InCall(w) /\ wk'[w].pc # "recv") => wk'[w].info = wk[w].info]_vars

\* Two workers are each inside a ProcessFile call for an entry of their
\* own.
C15_Witness ==
    \E v, w \in Workers : v # w /\ InCall(v) /\ InCall(w)

\* C16: a worker whose ProcessFile call returns an error is back at the
\* receive of its loop; its next step takes the next entry of the queue,
\* and it exits, like every worker, only on the closed and empty queue: all
\* workers are alive while the queue is open.
C16_WorkerSurvivesError ==
    /\ [](~queueClosed => \A w \in Workers : wk[w].pc # "exited")
    /\ [][\A w \in Workers :
            /\ (InCall(w) /\ wk'[w].ret = "error") => wk'[w].pc = "recv"
            /\ (Returned(w) /\ wk[w].ret = "error" /\ wk'[w] # wk[w])
                 => \/ /\ fileQueue # <<>>
                       /\ wk'[w].pc = "lookup"
                       /\ wk'[w].info = Head(fileQueue)
                    \/ /\ fileQueue = <<>>
                       /\ queueClosed
                       /\ wk'[w].pc = "exited"]_vars

\* A worker has returned from a failed call and the open queue holds the
\* next entry for it.
C16_Witness ==
    \E w \in Workers :
        /\ Returned(w) /\ wk[w].ret = "error"
        /\ fileQueue # <<>>
        /\ ~queueClosed

C18_NoPartialRecordAtExit ==
    shutdown.pc = "exited"
       => \A f \in files :
            /\ f.status \in Terminal
            /\ Cardinality({i \in DOMAIN device_data :
                              device_data[i].file_id = f.id})
                 = f.rows_processed

\* C19: at every moment at most NumWorkers ProcessFile calls are running,
\* and every running call belongs to a worker, for the entry it received
\* from the queue of the Watcher.
C19_SingleEntryPoint ==
    /\ Cardinality({c \in Callers : InCall(c)}) <= NumWorkers
    /\ \A c \in Callers : InCall(c) => c \in Workers

C21_ReportsAfterCommit ==
    \A i \in DOMAIN reports :
        \E f \in files : /\ f.id = reports[i].file_id
                         /\ f.status \in Terminal

\* The devices named by the rows parseTSVFile returns for the file.
DevicesOf(filename) ==
    LET rows == parseTSVFile(watchDir[filename]).rows IN
    {UnitGuidOf(filename, rows[i]) : i \in DOMAIN rows}

\* C22: once an ingest has ended in status 'completed' or 'partial', table
\* reports holds exactly one row of that ingest for each device among the
\* parsed rows of the file, and the row's file_path names a report file on
\* disk. It is stated for the behaviours in which no store statement has
\* failed.
C22_OneReportPerDevice ==
    \A f \in files :
        (faults = 0 /\ f.status \in {"completed", "partial"})
          => \A u \in DevicesOf(f.filename) :
               /\ Cardinality({i \in DOMAIN reports :
                                 /\ reports[i].file_id = f.id
                                 /\ reports[i].unit_guid = u}) = 1
               /\ \A i \in DOMAIN reports :
                     (reports[i].file_id = f.id /\ reports[i].unit_guid = u)
                        => reports[i].file_path \in outputDir

\* The devices of the rows processFile has saved for the file.
HandlerDevices ==
    {unitGuids[hk.filename][i] :
        i \in {j \in 2..Len(watchDir[hk.filename]) :
                  watchDir[hk.filename][j] = "valid"}}

\* C23: a report that fails is the failure of its device alone. Each step
\* of generateReports deals with one device, leaves the rows of the other
\* devices, the FileRecord and the DeviceRows alone and goes on with the
\* devices that are left; when the loop is over every device of the file
\* that did not fail has its one row in reports, and the status written
\* then is 'completed' whatever failed.
C23_ReportFailuresIndependent ==
    /\ [](hk.pc = "status"
            => \A u \in HandlerDevices :
                 Cardinality({i \in DOMAIN reports :
                                /\ reports[i].file_id = hk.fileID
                                /\ reports[i].unit_guid = u})
                   = IF u \in hk.failedUnits THEN 0 ELSE 1)
    /\ [][hk.pc = "reports"
            => /\ files' = files
               /\ device_data' = device_data
               /\ \E u \in hk.units :
                    /\ hk'.units = hk.units \ {u}
                    /\ reports' \in {reports,
                                     Append(reports, ReportRow(u, hk.fileID))}]_vars
    /\ [][(hk.pc = "status" /\ files' # files)
            => files' = WithStatus(hk.fileID, "completed")]_vars

\* The report of one device of the file has failed and the report of
\* another device of the same file is in the table.
C23_Witness ==
    /\ hk.pc = "status"
    /\ hk.failedUnits # {}
    /\ \E i \in DOMAIN reports : /\ reports[i].file_id = hk.fileID
                                 /\ reports[i].unit_guid \notin hk.failedUnits

\* C24: a ProcessFile call whose lookup finds a FileRecord of the same
\* filename and hash in a terminal status, while the file is still in the
\* watched directory, returns ok and has moved the file: to the archive
\* directory for 'completed' and 'partial', to the error directory for
\* 'failed'.
C24_DedupeHitMovesFile ==
    [][\A w \in Workers :
         LET existingFile == GetFileByFilename(wk[w].info.Name) IN
         (/\ wk[w].pc = "lookup"
          /\ wk'[w] # wk[w]
          /\ AlreadyProcessed(existingFile, wk[w].info)
          /\ existingFile.status \in Terminal
          /\ wk[w].info.Name \in DOMAIN watchDir)
            => /\ wk'[w].ret = "ok"
               /\ wk[w].info.Name \notin DOMAIN watchDir'
               /\ existingFile.status \in {"completed", "partial"}
                     => wk[w].info.Name \in archiveDir'
               /\ existingFile.status = "failed"
                     => wk[w].info.Name \in errorDir']_vars

\* C25: a CreateFile that is refused because a FileRecord of the filename
\* exists (no other failure of the store in that step) makes ProcessFile
\* return ok, with no FileRecord, row or error written by the call.
C25_UniqueViolationIsAlreadyProcessed ==
    [][\A w \in Workers :
         (/\ wk[w].pc = "create"
          /\ wk'[w] # wk[w]
          /\ UniqueViolation(wk[w].info.Name)
          /\ faults' = faults)
            => /\ wk'[w].pc = "recv"
               /\ wk'[w].ret = "ok"
               /\ UNCHANGED storeVars]_vars

\* C26: an ingest that has reached a terminal status and has recorded the
\* error of a file that could not be opened (the error without a line
\* number) has status 'failed', that error as its only ProcessingError, no
\* DeviceRow, and its file in the error directory.
C26_UnreadableFileFails ==
    \A f \in files :
        (/\ f.status \in Terminal
         /\ \E i \in DOMAIN processing_errors :
               /\ processing_errors[i].file_id = f.id
               /\ processing_errors[i].line_number = 0)
          => /\ f.status = "failed"
             /\ Cardinality({i \in DOMAIN processing_errors :
                               processing_errors[i].file_id = f.id}) = 1
             /\ ~ \E i \in DOMAIN device_data : device_data[i].file_id = f.id
             /\ f.filename \in errorDir

\* The file holds a header line and no data record.
HeaderOnly(content) ==
    /\ \E i \in DOMAIN content : content[i] = "header"
    /\ NonSkipped(content, 1, TRUE) = 0

\* C27: the ingest of a file that holds only a header ends in status
\* 'failed' with no DeviceRow and with one ProcessingError, the one saying
\* that the file is empty.
C27_HeaderOnlyFileFails ==
    \A f \in files :
        (f.status \in Terminal /\ HeaderOnly(watchDir[f.filename]))
          => /\ f.status = "failed"
             /\ ~ \E i \in DOMAIN device_data : device_data[i].file_id = f.id
             /\ Cardinality({i \in DOMAIN processing_errors :
                               processing_errors[i].file_id = f.id}) = 1

\* C28: a file that is not ready is not ingested. The files of this model
\* keep their size, so a file of size 0 (no line at all) is never ready:
\* no FileRecord is created for it and every call for it returns the
\* 'not ready' error.
C28_NoIngestBeforeReady ==
    /\ \A f \in files : watchDir[f.filename] # <<>>
    /\ \A w \in Workers :
          (Returned(w) /\ watchDir[wk[w].info.Name] = <<>>)
             => wk[w].ret = "error"

\* The physical lines of the file that are data records: not blank, not a
\* comment, and not the header (a header text is the header only as the
\* first line that is neither blank nor comment).
DataLines(content) ==
    {i \in DOMAIN content :
        /\ ~IsSkippedLine(content[i])
        /\ ~(/\ IsHeaderLine(content[i])
             /\ \A j \in 1..(i - 1) : IsSkippedLine(content[j]))}

\* The line numbers of the rows of a table that belong to the file.
LinesIn(table, fileID) ==
    {table[i].line_number : i \in {j \in DOMAIN table :
                                     table[j].file_id = fileID}}

CountIn(table, fileID) ==
    Cardinality({i \in DOMAIN table : table[i].file_id = fileID})

\* C29: after an ingest in which no store statement failed, every data
\* line that does not parse has exactly one ProcessingError, with the
\* number of that line, and every data line that parses has its DeviceRow,
\* whatever lines come before or after it.
C29_LineErrorsDoNotStopFile ==
    \A w \in Workers :
        (Returned(w) /\ wk[w].created /\ ~wk[w].writeErr)
          => LET content == watchDir[wk[w].info.Name]
                 invalid == {i \in DataLines(content) : content[i] # "valid"}
                 valid == {i \in DataLines(content) : content[i] = "valid"}
             IN /\ LinesIn(processing_errors, wk[w].fileID) = invalid
                /\ CountIn(processing_errors, wk[w].fileID)
                      = Cardinality(invalid)
                /\ LinesIn(device_data, wk[w].fileID) = valid
                /\ CountIn(device_data, wk[w].fileID) = Cardinality(valid)

\* An ingest has returned for a file with a line that does not parse and a
\* valid line after it.
C29_Witness ==
    \E w \in Workers :
        /\ Returned(w) /\ wk[w].created /\ ~wk[w].writeErr
        /\ LET content == watchDir[wk[w].info.Name] IN
           \E i, j \in DataLines(content) :
              i < j /\ content[i] = "invalid" /\ content[j] = "valid"

\* C30: the DeviceRows of one file are inserted in strictly ascending order
\* of line_number (so the numbers are distinct), and each number is the
\* position, counted from 1 over all physical lines of the file, of the
\* valid line the row was parsed from.
C30_LineNumbersAscending ==
    /\ \A i, j \in DOMAIN device_data :
          (i < j /\ device_data[i].file_id = device_data[j].file_id)
             => device_data[i].line_number < device_data[j].line_number
    /\ \A i \in DOMAIN device_data :
          LET content == watchDir[FileRow(files, device_data[i].file_id).filename]
          IN /\ device_data[i].line_number > 0
             /\ device_data[i].line_number \in DOMAIN content
             /\ content[device_data[i].line_number] = "valid"

\* Two rows of one file are stored.
C30_Witness ==
    \E i, j \in DOMAIN device_data :
        /\ i < j
        /\ device_data[i].file_id = device_data[j].file_id

\* The values of column class the data format names.
AllowedClasses ==
    {"alarm", "warning", "info", "event", "comand", "waiting", "working"}

\* Every field of the record that parseLine validates is well-formed.
OtherFieldsPass(fields) ==
    /\ Len(fields) >= 5
    /\ fields[4] = DeviceUUID
    /\ Len(fields) >= 9 => fields[9] \in Numerals \cup {""}
    /\ Len(fields) >= 14 => fields[14] \in Numerals \cup {""}
    /\ Len(fields) >= 15 => fields[15] \in TrueWords \cup FalseWords

\* C31: every stored DeviceRow with a class has one of the classes alarm,
\* warning, info, event, comand, waiting, working; a record with any other
\* non-empty class gets no row, and the parse error 'invalid class value'
\* when nothing else is wrong with it.
C31_ClassIsAllowed ==
    /\ \A i \in DOMAIN device_data :
          device_data[i].class # Null
            => device_data[i].class \in AllowedClasses
    /\ (/\ lineOut # NotParsed
        /\ Len(lineIn) >= 8
        /\ lineIn[8] \notin AllowedClasses \cup {""})
         => /\ ~lineOut.ok
            /\ OtherFieldsPass(lineIn) => lineOut.err = "invalid class value"

\* The record has no unit_guid field, an empty one, or one that is not a
\* UUID.
BadUnitGuid(fields) ==
    \/ Len(fields) < 4
    \/ fields[4] = ""
    \/ fields[4] \notin WellFormedUUIDs

\* C32: a record whose unit_guid is missing, empty or not a UUID gives no
\* row but an error that says 'invalid unit_guid', also when the record
\* ends at unit_guid; and a row is returned only when every validated
\* field of the record passed.
C32_InvalidUnitGuidIsReported ==
    lineOut # NotParsed =>
       /\ BadUnitGuid(lineIn)
            => ~lineOut.ok /\ lineOut.err = "invalid unit_guid format"
       /\ lineOut.ok
            => /\ lineIn[4] \in WellFormedUUIDs
               /\ Len(lineIn) >= 9 => lineIn[9] \in Numerals \cup {""}
               /\ Len(lineIn) >= 14 => lineIn[14] \in Numerals \cup {""}
               /\ Len(lineIn) >= 15
                     => lineIn[15] \in TrueWords \cup FalseWords

\* The line numbers of the DeviceRows stored for the file record id.
StoredLines(id) ==
    {device_data[i].line_number :
        i \in {j \in DOMAIN device_data : device_data[j].file_id = id}}

\* C33: when the row loop of an ingest is over, successCount + failedCount
\* is the number of parsed rows, the stored rows of the file are as many as
\* successCount, and each is one of the parsed rows: a failed insert costs
\* its own row only.
C33_FailedInsertCostsOneRow ==
    \A w \in Callers :
        wk[w].pc \in {"progress", "status"}
          => /\ wk[w].successCount + wk[w].failedCount = Len(wk[w].rows)
             /\ Cardinality(StoredLines(wk[w].fileID)) = wk[w].successCount
             /\ StoredLines(wk[w].fileID)
                   \subseteq {wk[w].rows[i].line_number :
                                 i \in DOMAIN wk[w].rows}

\* The insert of the first of two rows failed, and the second row is stored.
C33_Witness ==
    \E w \in Callers :
        /\ wk[w].pc = "progress"
        /\ Len(wk[w].rows) = 2
        /\ wk[w].failedCount = 1
        /\ StoredLines(wk[w].fileID) = {wk[w].rows[2].line_number}

\* The file records that rows appended to the table tbl in this step name.
AppendedTo(tbl, tblNext) ==
    {tblNext[i].file_id : i \in (DOMAIN tblNext) \ (DOMAIN tbl)}

\* C34: a DeviceRow or ProcessingError is inserted only for a FileRecord
\* that exists and is in status 'processing', and a FileRecord in a
\* terminal status is not written again: no row, no error, no counter.
C34_WritesBetweenCreateAndTerminal ==
    [][/\ \A id \in AppendedTo(device_data, device_data')
                   \cup AppendedTo(processing_errors, processing_errors') :
             \E f \in files : f.id = id /\ f.status = "processing"
       /\ \A f \in files : f.status \in Terminal => f \in files']_vars

\* An ingest that stored a row and an error has reached a terminal status.
C34_Witness ==
    \E f \in files :
        /\ f.status \in Terminal
        /\ \E i \in DOMAIN device_data : device_data[i].file_id = f.id
        /\ \E i \in DOMAIN processing_errors :
              processing_errors[i].file_id = f.id

\* The names the Watcher has put into the queue or is waiting to put.
QueuedNames ==
    {fileQueue[i].Name : i \in DOMAIN fileQueue}
      \cup {wk[w].info.Name : w \in {v \in Workers : wk[v].pc = "lookup"}}
      \cup (IF wpc = "blocked" THEN {pending.Name} ELSE {})

C36_IoErrorSkipsOneFile ==
    [][scanLog' # scanLog
         => /\ fileQueue' = fileQueue
            /\ pending' = pending
            /\ processed' = processed
            /\ entries' = Tail(entries)
            /\ wpc' = AfterCandidate(Tail(entries))]_vars

\* B.TSV failed in stat or hash, a.tsv after it in the same listing is
\* queued, and B.TSV itself gets queued by a later scan.
C36_Witness ==
    /\ TsvUpper \in scanLog
    /\ Len(fileQueue) = 1
    /\ fileQueue[1].Name = TsvUpper
    /\ \E w \in Workers : wk[w].pc = "lookup" /\ wk[w].info.Name = TsvLower

\* C37: whatever the interleaving of Stop with the Start loop, a scan and
\* SendToQueue, no value is sent on the file queue after Stop has closed
\* it.
C37_NoSendOnClosedQueue == panicked # "send on closed channel"

\* C38: once the ProcessFile call that created a FileRecord has returned,
\* that record is in a terminal status, whatever store statement failed on
\* the way.
C38_NoProcessingAfterReturn ==
    \A w \in Workers :
        (Returned(w) /\ wk[w].created)
           => FileRow(files, wk[w].fileID).status \in Terminal

\* The worker's ProcessFile call returns in this step through the dedupe
\* check, as 'already processed'.
SkipsAsProcessed(w) ==
    /\ wk[w].pc = "lookup"
    /\ wk'[w].pc = "recv"
    /\ wk'[w].ret = "ok"

\* C39: a call returns as 'already processed' only when the FileRecord of
\* that name and hash is in a terminal status; a record in 'processing'
\* does not let the call return ok.
C39_SkipOnlyWhenTerminal ==
    [][\A w \in Workers :
          SkipsAsProcessed(w)
            => \E f \in files : /\ f.filename = wk[w].info.Name
                                /\ f.file_hash = wk[w].info.Hash
                                /\ f.status \in Terminal]_vars

\* The numbers of the lines of content that are neither blank nor comment.
RecordLines(content) ==
    {i \in DOMAIN content : content[i] \notin {"blank", "comment"}}

\* The line numbers the elements of the sequence q carry.
LineNumbersOf(q) == {q[i].line_number : i \in DOMAIN q}

====
